---------------------------- MODULE Spec2Model ----------------------------
(***************************************************************************)
(* Model of appointment_flask: the signed magic-link token codec           *)
(* (utils/tokens.py), the reservation store (models/reservation_model.py), *)
(* the patient routes (views/public_routes.py) and the staff routes behind *)
(* the Flask-Login gate (views/staff_routes.py, app.py).                   *)
(***************************************************************************)
EXTENDS Integers, Sequences, FiniteSets, TLC

(***************************************************************************)
(* Bounds of the model.                                                    *)
(***************************************************************************)
\* Clock ticks per second: time.time() is finer than the whole-second
\* timestamp itsdangerous embeds in a token.
TicksPerSecond == 2
\* Last second the clock of the codec experiment reaches.
MaxCodecSecond == 3
\* Largest max_age_seconds passed to verify_token in the codec experiment.
MaxCodecAge == 2

(***************************************************************************)
(* Python values.  A value carries its type tag, so that isinstance() and  *)
(* "is None" are decided as Python decides them.                           *)
(***************************************************************************)
None == [type |-> "NoneType"]
Dict(f) == [type |-> "dict", val |-> f]
List(s) == [type |-> "list", val |-> s]
NoError == "None"

Emails == {"a@example.com", "b@example.com"}

(***************************************************************************)
(* utils/tokens.py                                                         *)
(***************************************************************************)
DEFAULT_SALT == "ci-appointment-magic-link"
OTHER_SALT == "another-purpose"
Salts == {DEFAULT_SALT, OTHER_SALT}
SECRET_KEY == "change-this-dev-secret-key"
FOREIGN_KEY == "not-the-server-key"

\* int(time.time()) of the clock reading now (in ticks).
get_timestamp(now) == now \div TicksPerSecond

\* The serializer's JSON encoding of a payload: an object is its set of
\* members, an array its items.
JsonDumps(v) ==
    IF v.type = "dict"
    THEN [kind |-> "object", members |-> {<<k, v.val[k]>> : k \in DOMAIN v.val}]
    ELSE [kind |-> "array", items |-> v.val]

JsonLoads(b) ==
    IF b.kind = "object"
    THEN Dict([k \in {m[1] : m \in b.members} |->
                 (CHOOSE m \in b.members : m[1] = k)[2]])
    ELSE List(b.items)

\* The HMAC of body and timestamp under the key derived from the secret
\* and the salt; the signer is taken to be collision free.
Sign(secret, salt, body, ts) == [key |-> <<secret, salt>>, msg |-> <<body, ts>>]

\* A serializer that drops the purpose and always signs under the default.
serializer_ignoring_salt(salt) == [secret_key |-> SECRET_KEY, salt |-> DEFAULT_SALT]

\* _serializer(salt): URLSafeTimedSerializer(SECRET_KEY, salt=salt)
serializer(salt) == [secret_key |-> SECRET_KEY, salt |-> salt]

\* s.dumps(payload) at clock reading now
dumps(s, payload, now) ==
    LET body == JsonDumps(payload)
        ts   == get_timestamp(now)
    IN  [body |-> body, ts |-> ts, sig |-> Sign(s.secret_key, s.salt, body, ts)]

issue_token(payload, salt, now) == dumps(serializer(salt), payload, now)

\* loads that looks at the age before the signature.
loads_age_first(s, token, max_age, now) ==
    LET age == get_timestamp(now) - token.ts
    IN  IF age > max_age \/ age < 0
        THEN [exc |-> "SignatureExpired", data |-> None]
        ELSE IF token.sig # Sign(s.secret_key, s.salt, token.body, token.ts)
        THEN [exc |-> "BadSignature", data |-> None]
        ELSE [exc |-> "ok", data |-> JsonLoads(token.body)]

\* loads that expires a token as soon as its age reaches max_age.
loads_expiring_at_max_age(s, token, max_age, now) ==
    LET age == get_timestamp(now) - token.ts
    IN  IF token.sig # Sign(s.secret_key, s.salt, token.body, token.ts)
        THEN [exc |-> "BadSignature", data |-> None]
        ELSE IF age >= max_age \/ age < 0
        THEN [exc |-> "SignatureExpired", data |-> None]
        ELSE [exc |-> "ok", data |-> JsonLoads(token.body)]

\* loads that never looks at the age.
loads_without_age(s, token, max_age, now) ==
    IF token.sig # Sign(s.secret_key, s.salt, token.body, token.ts)
    THEN [exc |-> "BadSignature", data |-> None]
    ELSE [exc |-> "ok", data |-> JsonLoads(token.body)]

\* s.loads(token, max_age): the signature first, then the age of the
\* timestamp, then the payload.
loads(s, token, max_age, now) ==
    LET age == get_timestamp(now) - token.ts
    IN  IF token.sig # Sign(s.secret_key, s.salt, token.body, token.ts)
        THEN [exc |-> "BadSignature", data |-> None]
        ELSE IF age > max_age \/ age < 0
        THEN [exc |-> "SignatureExpired", data |-> None]
        ELSE [exc |-> "ok", data |-> JsonLoads(token.body)]

verify_token(token, max_age_seconds, salt, now) ==
    LET r == loads(serializer(salt), token, max_age_seconds, now)
    IN  CASE r.exc = "SignatureExpired" -> [data |-> None, err |-> "expired"]
          [] r.exc = "BadSignature"     -> [data |-> None, err |-> "invalid"]
          [] OTHER -> IF r.data.type # "dict"
                      THEN [data |-> None, err |-> "invalid"]
                      ELSE [data |-> r.data, err |-> NoError]

(***************************************************************************)
(* models/reservation_model.py                                             *)
(***************************************************************************)
\* SQL NULL, which is also what Python's None is stored as.
NULL == "<NULL>"

\* dict.get(key): the value, or None when the key is missing.
Get(d, k) == IF k \in DOMAIN d THEN d[k] ELSE NULL

\* dict.get(key, ""), as request.form.get is called by the routes.
FormGet(form, k) == IF k \in DOMAIN form THEN form[k] ELSE ""

\* str.strip() on the strings the forms of this model carry.
strip(s) ==
    CASE s = " "            -> ""
      [] s = " 2025-06-01 " -> "2025-06-01"
      [] s = " confirmed "  -> "confirmed"
      [] OTHER              -> s

\* A test for None only, where the code tests truthiness.
is_not_None(s) == s # NULL

\* Python truthiness of a string or None.
Truthy(s) == s # "" /\ s # NULL

\* x or None
OrNone(s) == IF Truthy(s) THEN s ELSE NULL

\* CURRENT_TIMESTAMP has whole-second resolution.
CURRENT_TIMESTAMP(now) == get_timestamp(now)

\* An insert that takes the status from the caller when there is one.
create_reservation_with_caller_status(db, data, now) ==
    IF Get(data, "email") = NULL
    THEN db
    ELSE Append(db,
           [id                      |-> Len(db) + 1,
            email                   |-> Get(data, "email"),
            chart_number            |-> Get(data, "chart_number"),
            referring_hospital      |-> Get(data, "referring_hospital"),
            last_name               |-> Get(data, "last_name"),
            first_name              |-> Get(data, "first_name"),
            last_name_kana          |-> Get(data, "last_name_kana"),
            first_name_kana         |-> Get(data, "first_name_kana"),
            birth_date              |-> Get(data, "birth_date"),
            sex                     |-> Get(data, "sex"),
            first_choice_date       |-> Get(data, "first_choice_date"),
            first_choice_time_slot  |-> Get(data, "first_choice_time_slot"),
            second_choice_date      |-> Get(data, "second_choice_date"),
            second_choice_time_slot |-> Get(data, "second_choice_time_slot"),
            third_choice_date       |-> Get(data, "third_choice_date"),
            third_choice_time_slot  |-> Get(data, "third_choice_time_slot"),
            status                  |-> IF "status" \in DOMAIN data
                                        THEN data.status ELSE "pending",
            confirmed_datetime      |-> NULL,
            staff_note              |-> NULL,
            handled_by              |-> NULL,
            created_at              |-> CURRENT_TIMESTAMP(now),
            updated_at              |-> CURRENT_TIMESTAMP(now)])

\* INSERT INTO reservations ... VALUES (..., "pending"); the row id is the
\* position in the table (AUTOINCREMENT, rows are never deleted).  The
\* email column is NOT NULL: an insert without email raises and stores
\* nothing.
create_reservation(db, data, now) ==
    IF Get(data, "email") = NULL
    THEN db
    ELSE Append(db,
           [id                      |-> Len(db) + 1,
            email                   |-> Get(data, "email"),
            chart_number            |-> Get(data, "chart_number"),
            referring_hospital      |-> Get(data, "referring_hospital"),
            last_name               |-> Get(data, "last_name"),
            first_name              |-> Get(data, "first_name"),
            last_name_kana          |-> Get(data, "last_name_kana"),
            first_name_kana         |-> Get(data, "first_name_kana"),
            birth_date              |-> Get(data, "birth_date"),
            sex                     |-> Get(data, "sex"),
            first_choice_date       |-> Get(data, "first_choice_date"),
            first_choice_time_slot  |-> Get(data, "first_choice_time_slot"),
            second_choice_date      |-> Get(data, "second_choice_date"),
            second_choice_time_slot |-> Get(data, "second_choice_time_slot"),
            third_choice_date       |-> Get(data, "third_choice_date"),
            third_choice_time_slot  |-> Get(data, "third_choice_time_slot"),
            status                  |-> "pending",
            confirmed_datetime      |-> NULL,
            staff_note              |-> NULL,
            handled_by              |-> NULL,
            created_at              |-> CURRENT_TIMESTAMP(now),
            updated_at              |-> CURRENT_TIMESTAMP(now)])

\* A lookup that answers with the newest row when the id matches none.
get_reservation_by_id_or_newest(db, reservation_id) ==
    IF reservation_id \in 1..Len(db) THEN db[reservation_id]
    ELSE IF Len(db) > 0 THEN db[Len(db)] ELSE None

\* SELECT * FROM reservations WHERE id = ?  (fetchone)
get_reservation_by_id(db, reservation_id) ==
    IF reservation_id \in 1..Len(db) THEN db[reservation_id] ELSE None

\* An UPDATE that sets the first choice and leaves the other two pairs.
update_reservation_choices_first_only(db, reservation_id, c, now) ==
    [i \in 1..Len(db) |->
       IF i # reservation_id THEN db[i]
       ELSE [db[i] EXCEPT
               !.first_choice_date      = c.first_choice_date,
               !.first_choice_time_slot = c.first_choice_time_slot,
               !.status                 = "pending",
               !.updated_at             = CURRENT_TIMESTAMP(now)]]

\* An UPDATE of the choices without its WHERE clause.
update_reservation_choices_without_where(db, reservation_id, c, now) ==
    [i \in 1..Len(db) |->
       [db[i] EXCEPT
          !.first_choice_date       = c.first_choice_date,
          !.first_choice_time_slot  = c.first_choice_time_slot,
          !.second_choice_date      = c.second_choice_date,
          !.second_choice_time_slot = c.second_choice_time_slot,
          !.third_choice_date       = c.third_choice_date,
          !.third_choice_time_slot  = c.third_choice_time_slot,
          !.status                  = "pending",
          !.updated_at              = CURRENT_TIMESTAMP(now)]]

\* An UPDATE of the choices that leaves the status column out of its SET list.
update_reservation_choices_keeping_status(db, reservation_id, c, now) ==
    [i \in 1..Len(db) |->
       IF i # reservation_id THEN db[i]
       ELSE [db[i] EXCEPT
               !.first_choice_date       = c.first_choice_date,
               !.first_choice_time_slot  = c.first_choice_time_slot,
               !.second_choice_date      = c.second_choice_date,
               !.second_choice_time_slot = c.second_choice_time_slot,
               !.third_choice_date       = c.third_choice_date,
               !.third_choice_time_slot  = c.third_choice_time_slot,
               !.updated_at              = CURRENT_TIMESTAMP(now)]]

\* UPDATE reservations SET <six choice fields>, status = 'pending',
\* updated_at = CURRENT_TIMESTAMP WHERE id = ?
update_reservation_choices(db, reservation_id, c, now) ==
    [i \in 1..Len(db) |->
       IF i # reservation_id THEN db[i]
       ELSE [db[i] EXCEPT
               !.first_choice_date       = c.first_choice_date,
               !.first_choice_time_slot  = c.first_choice_time_slot,
               !.second_choice_date      = c.second_choice_date,
               !.second_choice_time_slot = c.second_choice_time_slot,
               !.third_choice_date       = c.third_choice_date,
               !.third_choice_time_slot  = c.third_choice_time_slot,
               !.status                  = "pending",
               !.updated_at              = CURRENT_TIMESTAMP(now)]]

\* An UPDATE with confirmed_datetime = COALESCE(?, confirmed_datetime).
update_reservation_status_coalescing_datetime(db, reservation_id, status, confirmed_datetime, staff_note, handled_by, now) ==
    [i \in 1..Len(db) |->
       IF i # reservation_id THEN db[i]
       ELSE [db[i] EXCEPT
               !.status             = status,
               !.confirmed_datetime = IF confirmed_datetime = NULL THEN @
                                      ELSE confirmed_datetime,
               !.staff_note         = staff_note,
               !.handled_by         = handled_by,
               !.updated_at         = CURRENT_TIMESTAMP(now)]]

\* An UPDATE that leaves handled_by out of its SET list.
update_reservation_status_without_handler(db, reservation_id, status, confirmed_datetime, staff_note, handled_by, now) ==
    [i \in 1..Len(db) |->
       IF i # reservation_id THEN db[i]
       ELSE [db[i] EXCEPT
               !.status             = status,
               !.confirmed_datetime = confirmed_datetime,
               !.staff_note         = staff_note,
               !.updated_at         = CURRENT_TIMESTAMP(now)]]

\* UPDATE reservations SET status = ?, confirmed_datetime = ?,
\* staff_note = ?, handled_by = ?, updated_at = CURRENT_TIMESTAMP WHERE id = ?
update_reservation_status(db, reservation_id, status, confirmed_datetime, staff_note, handled_by, now) ==
    [i \in 1..Len(db) |->
       IF i # reservation_id THEN db[i]
       ELSE [db[i] EXCEPT
               !.status             = status,
               !.confirmed_datetime = confirmed_datetime,
               !.staff_note         = staff_note,
               !.handled_by         = handled_by,
               !.updated_at         = CURRENT_TIMESTAMP(now)]]

(***************************************************************************)
(* models/staff_user_model.py                                              *)
(***************************************************************************)
\* generate_password_hash / check_password_hash of werkzeug.security
generate_password_hash(password) == <<"hash", password>>
check_password_hash(pwhash, password) == pwhash = generate_password_hash(password)

\* email.strip().lower() on the login names of this model
lower(s) ==
    CASE s = "Staff@Example.com" -> "staff@example.com"
      [] OTHER                   -> s

\* SELECT id, email, name, is_active FROM staff_users WHERE id = ?
get_staff_user_by_id(users, user_id) ==
    IF user_id \in 1..Len(users)
    THEN [type |-> "StaffUser", id |-> user_id, email |-> users[user_id].email,
          name |-> users[user_id].name,
          is_active |-> (users[user_id].is_active # 0)]
    ELSE None

\* SELECT ... FROM staff_users WHERE email = ?  (email is UNIQUE)
get_staff_user_by_email(users, email) ==
    LET e == lower(strip(email))
    IN  IF \E i \in 1..Len(users) : users[i].email = e
        THEN [type |-> "Row",
              id |-> CHOOSE i \in 1..Len(users) : users[i].email = e]
        ELSE None

\* UPDATE staff_users SET is_active = ? WHERE id = ?
set_staff_user_active(users, user_id, is_active) ==
    [i \in 1..Len(users) |->
       IF i = user_id
       THEN [users[i] EXCEPT !.is_active = IF is_active THEN 1 ELSE 0]
       ELSE users[i]]

\* A password check that does not look at is_active.
verify_staff_password_ignoring_active(users, email, password) ==
    LET row == get_staff_user_by_email(users, email)
    IN  IF row = None THEN None
        ELSE IF check_password_hash(users[row.id].password_hash, password)
        THEN get_staff_user_by_id(users, row.id)
        ELSE None

verify_staff_password(users, email, password) ==
    LET row == get_staff_user_by_email(users, email)
    IN  IF row = None THEN None
        ELSE IF users[row.id].is_active = 0 THEN None
        ELSE IF check_password_hash(users[row.id].password_hash, password)
        THEN get_staff_user_by_id(users, row.id)
        ELSE None

(***************************************************************************)
(* State.                                                                  *)
(***************************************************************************)
VARIABLES
    now,           \* the wall clock, in ticks
    reservations,  \* the reservations table, row id = position
    staff_users,   \* the staff_users table, row id = position
    session,       \* per browser: the user id Flask-Login keeps, 0 if none
    req,           \* per browser: its staff detail POST in flight
    last,          \* the last completed call or request and its response
    cx             \* the codec experiment: a token issued, altered, verified

vars == <<now, reservations, staff_users, session, req, last, cx>>

Clients == {"c1", "c2"}

\* Most rows the reservations table holds.
MaxReservations == 1
\* Most rows it holds, and most seconds that pass, while the store is
\* called directly.
MaxStoreRows == 2
MaxStoreSeconds == 1

CxIdle == [pc |-> "idle"]
ReqIdle == [pc |-> "idle"]
NoCall == [op |-> "none"]

\* scripts/create_staff_user.py has been run once.
InitStaffUsers ==
    <<[email |-> "staff@example.com", name |-> "Staff One",
       password_hash |-> generate_password_hash("secret"), is_active |-> 1]>>

InitSystem ==
    /\ reservations = <<>>
    /\ staff_users = InitStaffUsers
    /\ session = [c \in Clients |-> 0]
    /\ req = [c \in Clients |-> ReqIdle]
    /\ last = NoCall

(***************************************************************************)
(* Inputs of the web requests.                                             *)
(***************************************************************************)
\* The window of the reschedule links, given to the form links as well.
FORM_MAX_AGE_of_reschedule == 48 * 60 * 60

FORM_MAX_AGE == 60 * 60

\* The window of the form links, given to the reschedule links as well.
RESCHEDULE_MAX_AGE_of_form == 60 * 60

RESCHEDULE_MAX_AGE == 48 * 60 * 60

\* The clock reading at which the server starts: late enough for tokens
\* older than the longer expiry window to exist.
Epoch == (RESCHEDULE_MAX_AGE + 2) * TicksPerSecond

Methods == {"GET", "POST"}

\* Payloads of the tokens a request may carry.
RoutePayloads ==
    {Dict([email |-> e]) : e \in Emails}
    \cup {Dict([email |-> e, reservation_id |-> r]) :
            e \in Emails, r \in 1..MaxReservations}
    \cup {Dict([reservation_id |-> 1]), List(<<"a@example.com", 1>>),
          Dict([email |-> "", reservation_id |-> 1])}

\* The tokens a request may carry at clock reading t: strings signed with
\* the server's secret under the default purpose, just now or a window's
\* length ago (SECRET_KEY and DATABASE are configured independently, so a
\* signed token need not stem from the rows now in the table), and strings
\* signed under another purpose or with another key.
RouteTokens(t) ==
    {issue_token(p, DEFAULT_SALT, t) : p \in RoutePayloads}
    \cup {issue_token(Dict([email |-> "a@example.com"]), DEFAULT_SALT,
                      t - a * TicksPerSecond) :
            a \in {FORM_MAX_AGE, FORM_MAX_AGE + 1}}
    \cup {issue_token(Dict([email |-> "a@example.com", reservation_id |-> 1]),
                      DEFAULT_SALT, t - a * TicksPerSecond) :
            a \in {FORM_MAX_AGE + 1, RESCHEDULE_MAX_AGE, RESCHEDULE_MAX_AGE + 1}}
    \cup {issue_token(Dict([email |-> "a@example.com", reservation_id |-> 1]),
                      OTHER_SALT, t)}
    \cup {[body |-> JsonDumps(p), ts |-> get_timestamp(t),
           sig |-> Sign(FOREIGN_KEY, DEFAULT_SALT, JsonDumps(p), get_timestamp(t))] :
            p \in {Dict([email |-> "a@example.com"]),
                   Dict([email |-> "a@example.com", reservation_id |-> 1])}}

\* The tokens of the links the server itself mails out for address e.
FormToken(e, t) == issue_token(Dict([email |-> e]), DEFAULT_SALT, t)

Demographics ==
    [chart_number |-> "", referring_hospital |-> "City Clinic",
     last_name |-> "Yamada", first_name |-> "Taro",
     last_name_kana |-> "yamada", first_name_kana |-> "taro",
     birth_date |-> "1980-01-01", sex |-> "M"]

\* Fields of f, then those of g the keys of f do not cover.
Merge(f, g) ==
    [k \in DOMAIN f \cup DOMAIN g |-> IF k \in DOMAIN f THEN f[k] ELSE g[k]]

\* request.form of a POST to the reservation form
PatientForms ==
    {Merge([first_choice_date |-> " 2025-06-01 ", first_choice_time_slot |-> "AM"],
           Demographics),
     Merge([first_choice_date |-> "2025-06-01", first_choice_time_slot |-> "AM",
            second_choice_date |-> "2025-06-02", second_choice_time_slot |-> "PM",
            third_choice_date |-> "2025-06-03", third_choice_time_slot |-> "AM",
            status |-> "confirmed", email |-> "b@example.com"],
           Demographics),
     Merge([last_name |-> " ", first_choice_date |-> "2025-06-01",
            first_choice_time_slot |-> "AM"], Demographics),
     Merge([first_choice_date |-> "2025-06-01", first_choice_time_slot |-> "AM",
            second_choice_date |-> "2025-06-02"], Demographics),
     Merge([first_choice_date |-> "2025-06-01", third_choice_time_slot |-> "AM"],
           Demographics)}

\* request.form of a POST to the reschedule form
RescheduleForms ==
    {[first_choice_date |-> "2025-07-01", first_choice_time_slot |-> "PM"],
     [first_choice_date |-> "2025-07-01", first_choice_time_slot |-> "PM",
      second_choice_date |-> "2025-07-02", second_choice_time_slot |-> "AM",
      third_choice_date |-> "2025-07-03", third_choice_time_slot |-> "PM",
      email |-> "b@example.com", last_name |-> "Sato"],
     [first_choice_time_slot |-> "PM"],
     [first_choice_date |-> "2025-07-01", first_choice_time_slot |-> "PM",
      third_choice_date |-> "2025-07-03"]}

\* request.form of a POST to the staff detail page
StaffForms ==
    {[status |-> " confirmed ", confirmed_datetime |-> "2025-06-01 10:00",
      handled_by |-> "staff-A"],
     [status |-> "confirmed", staff_note |-> "by phone"],
     [status |-> "need_reschedule", staff_note |-> "no slot", handled_by |-> "staff-B"],
     [status |-> "cancelled"],
     [status |-> "archived"],
     [confirmed_datetime |-> "2025-06-01 10:00"]}

LoginEmails == {"staff@example.com", "Staff@Example.com", "nobody@example.com"}
LoginPasswords == {"secret", "wrong"}

\* <<m>> if cond, else nothing: errors.append(m) under an if
Msg(cond, m) == IF cond THEN <<m>> ELSE <<>>

(***************************************************************************)
(* views/public_routes.py                                                  *)
(***************************************************************************)
\* POST /reservations/email/: a token for the address, and the link mailed.
EmailInput(method, email, sent) ==
    LET e == strip(email) IN
    /\ last' =
         IF method = "POST"
         THEN IF e = ""
              THEN [op |-> "email_input", method |-> method,
                    outcome |-> "email_input", mails |-> <<>>]
              ELSE [op |-> "email_input", method |-> method,
                    outcome |-> IF sent THEN "email_sent" ELSE "email_input",
                    token |-> issue_token(Dict([email |-> e]), DEFAULT_SALT, now),
                    mails |-> <<[kind |-> "magic_link", to |-> e, ok |-> sent]>>]
         ELSE [op |-> "email_input", method |-> method,
               outcome |-> "email_input", mails |-> <<>>]
    /\ UNCHANGED <<now, reservations, staff_users, session, req, cx>>

\* A validation that checks the required fields only.
reservation_form_errors_required_only(d) ==
    Msg(~Truthy(d.last_name) \/ ~Truthy(d.first_name), "name")
    \o Msg(~Truthy(d.birth_date), "birth_date")
    \o Msg(~Truthy(d.sex), "sex")
    \o Msg(~Truthy(d.first_choice_date), "first_choice_date")
    \o Msg(~Truthy(d.first_choice_time_slot), "first_choice_time_slot")

\* The validation of the reservation form, lines 124-152.
reservation_form_errors(d) ==
    Msg(~Truthy(d.last_name) \/ ~Truthy(d.first_name), "name")
    \o Msg(~Truthy(d.birth_date), "birth_date")
    \o Msg(~Truthy(d.sex), "sex")
    \o Msg(~Truthy(d.first_choice_date), "first_choice_date")
    \o Msg(~Truthy(d.first_choice_time_slot), "first_choice_time_slot")
    \o Msg(Truthy(d.second_choice_date) /\ ~Truthy(d.second_choice_time_slot), "second_slot")
    \o Msg(Truthy(d.second_choice_time_slot) /\ ~Truthy(d.second_choice_date), "second_date")
    \o Msg(Truthy(d.third_choice_date) /\ ~Truthy(d.third_choice_time_slot), "third_slot")
    \o Msg(Truthy(d.third_choice_time_slot) /\ ~Truthy(d.third_choice_date), "third_date")

\* A mapping that takes the email from the form when the form has one.
reservation_data_preferring_form_email(email, form) ==
    [email                   |-> IF "email" \in DOMAIN form THEN form.email ELSE email,
     chart_number            |-> strip(FormGet(form, "chart_number")),
     referring_hospital      |-> strip(FormGet(form, "referring_hospital")),
     last_name               |-> strip(FormGet(form, "last_name")),
     first_name              |-> strip(FormGet(form, "first_name")),
     last_name_kana          |-> strip(FormGet(form, "last_name_kana")),
     first_name_kana         |-> strip(FormGet(form, "first_name_kana")),
     birth_date              |-> strip(FormGet(form, "birth_date")),
     sex                     |-> strip(FormGet(form, "sex")),
     first_choice_date       |-> strip(FormGet(form, "first_choice_date")),
     first_choice_time_slot  |-> strip(FormGet(form, "first_choice_time_slot")),
     second_choice_date      |-> strip(FormGet(form, "second_choice_date")),
     second_choice_time_slot |-> strip(FormGet(form, "second_choice_time_slot")),
     third_choice_date       |-> strip(FormGet(form, "third_choice_date")),
     third_choice_time_slot  |-> strip(FormGet(form, "third_choice_time_slot"))]

\* reservation_data, lines 107-122: the email of the token and the
\* stripped fields of the form.
reservation_data_of(email, form) ==
    [email                   |-> email,
     chart_number            |-> strip(FormGet(form, "chart_number")),
     referring_hospital      |-> strip(FormGet(form, "referring_hospital")),
     last_name               |-> strip(FormGet(form, "last_name")),
     first_name              |-> strip(FormGet(form, "first_name")),
     last_name_kana          |-> strip(FormGet(form, "last_name_kana")),
     first_name_kana         |-> strip(FormGet(form, "first_name_kana")),
     birth_date              |-> strip(FormGet(form, "birth_date")),
     sex                     |-> strip(FormGet(form, "sex")),
     first_choice_date       |-> strip(FormGet(form, "first_choice_date")),
     first_choice_time_slot  |-> strip(FormGet(form, "first_choice_time_slot")),
     second_choice_date      |-> strip(FormGet(form, "second_choice_date")),
     second_choice_time_slot |-> strip(FormGet(form, "second_choice_time_slot")),
     third_choice_date       |-> strip(FormGet(form, "third_choice_date")),
     third_choice_time_slot  |-> strip(FormGet(form, "third_choice_time_slot"))]

\* GET/POST /reservations/form/<token>/
ReservationForm(token, method, form) ==
    \E v \in {verify_token(token, FORM_MAX_AGE, DEFAULT_SALT, now)} :
    LET email == IF v.err = NoError THEN Get(v.data.val, "email") ELSE NULL
        reservation_data == reservation_data_of(email, form)
        errors == reservation_form_errors(reservation_data)
    IN
    \E outcome \in
        {CASE v.err = "expired" -> "token_expired"
           [] v.err = "invalid" \/ v.data = None -> "token_invalid"
           [] ~Truthy(email) -> "token_invalid"
           [] method = "POST" /\ errors # <<>> -> "form_errors"
           [] method = "POST" -> "done"
           [] OTHER -> "form"} :
    /\ outcome = "done" => Len(reservations) < MaxReservations
    /\ reservations' = IF outcome = "done"
                       THEN create_reservation(reservations, reservation_data, now)
                       ELSE reservations
    /\ last' = [op |-> "reservation_form", method |-> method, err |-> v.err,
                email |-> email, outcome |-> outcome,
                form |-> IF outcome \in {"form_errors", "done"} THEN form ELSE <<>>,
                errors |-> IF outcome = "form_errors" THEN errors ELSE <<>>]
    /\ UNCHANGED <<now, staff_users, session, req, cx>>

\* A validation of the reschedule form that checks the first choice only.
reschedule_errors_first_only(c) ==
    Msg(~Truthy(c.first_choice_date), "first_choice_date")
    \o Msg(~Truthy(c.first_choice_time_slot), "first_choice_time_slot")

\* The validation of the reschedule form, lines 226-241.
reschedule_errors(c) ==
    Msg(~Truthy(c.first_choice_date), "first_choice_date")
    \o Msg(~Truthy(c.first_choice_time_slot), "first_choice_time_slot")
    \o Msg(Truthy(c.second_choice_date) /\ ~Truthy(c.second_choice_time_slot), "second_slot")
    \o Msg(Truthy(c.second_choice_time_slot) /\ ~Truthy(c.second_choice_date), "second_date")
    \o Msg(Truthy(c.third_choice_date) /\ ~Truthy(c.third_choice_time_slot), "third_slot")
    \o Msg(Truthy(c.third_choice_time_slot) /\ ~Truthy(c.third_choice_date), "third_date")

\* An ownership test that lets every holder of a valid token through.
owns_whatever_the_email(reservation, email_from_token) == TRUE

\* The ownership test of line 211: may the holder of a token for
\* email_from_token act on this row?
owns(reservation, email_from_token) == reservation.email = email_from_token

\* A lookup of the reservation id that falls back to the first row.
payload_reservation_id_defaulting(data) ==
    IF "reservation_id" \in DOMAIN data THEN data.reservation_id ELSE 1

\* data.get("reservation_id"), line 194; the ids of the payloads start at
\* 1 and 0 stands for None.
payload_reservation_id(data) ==
    IF "reservation_id" \in DOMAIN data THEN data.reservation_id ELSE 0

\* GET/POST /reservations/reschedule/<token>/
Reschedule(token, method, form) ==
    \E v \in {verify_token(token, RESCHEDULE_MAX_AGE, DEFAULT_SALT, now)} :
    LET verified == v.err = NoError
        email_from_token == IF verified THEN Get(v.data.val, "email") ELSE NULL
        reservation_id == IF verified THEN payload_reservation_id(v.data.val) ELSE 0
        has_id == reservation_id # 0
        reservation == get_reservation_by_id(reservations, reservation_id)
        c == [first_choice_date       |-> strip(FormGet(form, "first_choice_date")),
              first_choice_time_slot  |-> strip(FormGet(form, "first_choice_time_slot")),
              second_choice_date      |-> strip(FormGet(form, "second_choice_date")),
              second_choice_time_slot |-> strip(FormGet(form, "second_choice_time_slot")),
              third_choice_date       |-> strip(FormGet(form, "third_choice_date")),
              third_choice_time_slot  |-> strip(FormGet(form, "third_choice_time_slot"))]
        errors == reschedule_errors(c)
    IN
    \E outcome \in
        {CASE v.err = "expired" -> "token_expired"
           [] v.err = "invalid" \/ v.data = None -> "token_invalid"
           [] ~Truthy(email_from_token) \/ ~has_id -> "token_invalid"
           [] reservation = None -> "not_found"
           [] ~owns(reservation, email_from_token) -> "token_invalid"
           [] method = "POST" /\ errors # <<>> -> "form_errors"
           [] method = "POST" -> "done"
           [] OTHER -> "form"} :
    /\ reservations' =
         IF outcome = "done"
         THEN update_reservation_choices(reservations, reservation_id,
                [first_choice_date       |-> c.first_choice_date,
                 first_choice_time_slot  |-> c.first_choice_time_slot,
                 second_choice_date      |-> OrNone(c.second_choice_date),
                 second_choice_time_slot |-> OrNone(c.second_choice_time_slot),
                 third_choice_date       |-> OrNone(c.third_choice_date),
                 third_choice_time_slot  |-> OrNone(c.third_choice_time_slot)],
                now)
         ELSE reservations
    /\ last' = [op |-> "reschedule", method |-> method, err |-> v.err,
                email |-> email_from_token, rid |-> reservation_id,
                outcome |-> outcome,
                form |-> IF outcome \in {"form_errors", "done"} THEN form ELSE <<>>,
                errors |-> IF outcome = "form_errors" THEN errors ELSE <<>>]
    /\ UNCHANGED <<now, staff_users, session, req, cx>>

(***************************************************************************)
(* app.py and the Flask-Login gate                                         *)
(***************************************************************************)
AnonymousUser == [type |-> "AnonymousUserMixin", is_active |-> FALSE]

\* create_app.load_user
load_user(users, user_id) == get_staff_user_by_id(users, user_id)

\* flask_login.current_user for the browser's session
current_user(users, sess) ==
    IF sess = 0 THEN AnonymousUser
    ELSE IF load_user(users, sess) = None THEN AnonymousUser
    ELSE load_user(users, sess)

\* A gate that lets every request through.
is_authenticated_always(user) == TRUE

\* A gate that only asks whether the session names a user.
is_authenticated_ignoring_active(user) == user.type = "StaffUser"

\* current_user.is_authenticated, which @login_required tests: UserMixin
\* answers with is_active, the anonymous user with False.
is_authenticated(user) == user.type = "StaffUser" /\ user.is_active

(***************************************************************************)
(* views/staff_routes.py                                                   *)
(***************************************************************************)
\* GET/POST /staff/login/
Login(c, method, email, password) ==
    \E user \in {verify_staff_password(staff_users, strip(email), password)} :
    \E outcome \in
        {CASE is_authenticated(current_user(staff_users, session[c])) -> "redirect_index"
           [] method = "POST" /\ user = None -> "login_error"
           [] method = "POST" -> "logged_in"
           [] OTHER -> "login_form"} :
    /\ session' = IF outcome = "logged_in"
                  THEN [session EXCEPT ![c] = user.id]
                  ELSE session
    /\ last' = [op |-> "login", client |-> c, method |-> method,
                email |-> email, password |-> password, outcome |-> outcome]
    /\ UNCHANGED <<now, reservations, staff_users, req, cx>>

\* GET /staff/logout/
Logout(c) ==
    LET ok == is_authenticated(current_user(staff_users, session[c])) IN
    /\ session' = IF ok THEN [session EXCEPT ![c] = 0] ELSE session
    /\ last' = [op |-> "logout", client |-> c,
                outcome |-> IF ok THEN "logged_out" ELSE "login_redirect"]
    /\ UNCHANGED <<now, reservations, staff_users, req, cx>>

\* The same SELECT with ORDER BY updated_at ASC.
PendingOrders_by_updated_at(db) ==
    LET ids == {i \in 1..Len(db) : db[i].status = "pending"}
    IN  {q \in [1..Cardinality(ids) -> ids] :
           /\ \A i, j \in 1..Cardinality(ids) : i # j => q[i] # q[j]
           /\ \A i, j \in 1..Cardinality(ids) :
                i < j => db[q[i]].updated_at <= db[q[j]].updated_at}

\* SELECT ... WHERE status = 'pending' ORDER BY created_at ASC: the ids of
\* the rows returned, in one of the orders the ORDER BY allows.
PendingOrders(db) ==
    LET ids == {i \in 1..Len(db) : db[i].status = "pending"}
    IN  {q \in [1..Cardinality(ids) -> ids] :
           /\ \A i, j \in 1..Cardinality(ids) : i # j => q[i] # q[j]
           /\ \A i, j \in 1..Cardinality(ids) :
                i < j => db[q[i]].created_at <= db[q[j]].created_at}

\* GET /staff/reservations/
ReservationList(c) ==
    LET ok == is_authenticated(current_user(staff_users, session[c])) IN
    /\ \E pending \in PendingOrders(reservations) :
         last' = [op |-> "reservation_list", client |-> c, method |-> "GET",
                  authenticated |-> ok,
                  outcome |-> IF ok THEN "dashboard" ELSE "login_redirect",
                  reads |-> ok,
                  pending |-> IF ok THEN pending ELSE <<>>,
                  mails |-> <<>>]
    /\ UNCHANGED <<now, reservations, staff_users, session, req, cx>>

\* A test that mails the confirmation on every save of a confirmed record.
sends_confirmation_on_every_save(before_status, status, confirmed_datetime) ==
    status = "confirmed" /\ Truthy(confirmed_datetime)

\* The test of line 121 that lets the confirmation mail out.
sends_confirmation(before_status, status, confirmed_datetime) ==
    before_status # "confirmed" /\ status = "confirmed" /\ Truthy(confirmed_datetime)

\* A test that also mails the reschedule link on a cancellation.
sends_reschedule_or_cancelled(status) ==
    status = "need_reschedule" \/ status = "cancelled"

\* The test of line 152 that lets the reschedule mail out.
sends_reschedule(status) == status = "need_reschedule"

\* /staff/reservations/<id>/ up to the call of update_reservation_status:
\* the gate, the read of the row, the form.
DetailBegin(c, reservation_id, method, form) ==
    LET ok == is_authenticated(current_user(staff_users, session[c]))
        reservation == get_reservation_by_id(reservations, reservation_id)
        status == strip(FormGet(form, "status"))
    IN
    \E outcome \in
        {CASE ~ok -> "login_redirect"
           [] reservation = None -> "not_found"
           [] method = "POST" /\ status = "" -> "status_required"
           [] method = "POST" -> "update"
           [] OTHER -> "detail"} :
    /\ req[c].pc = "idle"
    /\ IF outcome = "update"
       THEN /\ req' = [req EXCEPT ![c] =
                        [pc |-> "update",
                         reservation_id |-> reservation_id,
                         user |-> session[c],
                         before_status |-> reservation.status,
                         email |-> reservation.email,
                         status |-> status,
                         confirmed_datetime |-> strip(FormGet(form, "confirmed_datetime")),
                         staff_note |-> strip(FormGet(form, "staff_note")),
                         handled_by |-> strip(FormGet(form, "handled_by"))]]
            /\ last' = [op |-> "reservation_detail", client |-> c,
                        method |-> method, authenticated |-> ok,
                        reservation_id |-> reservation_id,
                        outcome |-> "in_progress", reads |-> ok,
                        mails |-> <<>>]
       ELSE /\ last' = [op |-> "reservation_detail", client |-> c,
                        method |-> method, authenticated |-> ok,
                        reservation_id |-> reservation_id,
                        outcome |-> outcome, reads |-> ok, mails |-> <<>>]
            /\ UNCHANGED req
    /\ UNCHANGED <<now, reservations, staff_users, session, cx>>

\* Lines 111-118: the write, committed.
DetailWrite(c) ==
    /\ req[c].pc = "update"
    /\ reservations' =
         update_reservation_status(reservations, req[c].reservation_id,
             req[c].status, OrNone(req[c].confirmed_datetime),
             OrNone(req[c].staff_note), OrNone(req[c].handled_by), now)
    /\ req' = [req EXCEPT ![c].pc = "notify"]
    /\ UNCHANGED <<now, staff_users, session, last>>

DetailUpdate(c) == DetailWrite(c) /\ UNCHANGED cx

\* Lines 120-191: the mails, each sent or failing, and the response.
DetailRespond(c, sent) ==
    LET r == req[c]
        updated == get_reservation_by_id(reservations, r.reservation_id)
        confirmation ==
            IF sends_confirmation(r.before_status, r.status, r.confirmed_datetime)
               /\ updated # None
            THEN <<[kind |-> "confirmation", to |-> updated.email,
                    confirmed_datetime |-> r.confirmed_datetime, ok |-> sent]>>
            ELSE <<>>
        reschedule_token ==
            issue_token(Dict([email |-> r.email, reservation_id |-> r.reservation_id]),
                        DEFAULT_SALT, now)
        reschedule ==
            IF sends_reschedule(r.status)
            THEN <<[kind |-> "reschedule", to |-> r.email,
                    token |-> reschedule_token, ok |-> sent]>>
            ELSE <<>>
    IN
    /\ r.pc = "notify"
    /\ last' = [op |-> "reservation_detail", client |-> c, method |-> "POST",
                authenticated |-> TRUE,
                reservation_id |-> r.reservation_id,
                outcome |-> "updated", reads |-> TRUE,
                before_status |-> r.before_status,
                status |-> r.status,
                confirmed_datetime |-> r.confirmed_datetime,
                staff_note |-> r.staff_note,
                handled_by |-> r.handled_by,
                mails |-> confirmation \o reschedule]
    /\ req' = [req EXCEPT ![c] = ReqIdle]
    /\ UNCHANGED <<now, reservations, staff_users, session>>

DetailNotify(c, sent) == DetailRespond(c, sent) /\ UNCHANGED cx

\* set_staff_user_active(user_id, is_active), called by an administrator
SetStaffUserActive(user_id, is_active) ==
    /\ staff_users' = set_staff_user_active(staff_users, user_id, is_active)
    /\ staff_users' # staff_users
    /\ UNCHANGED <<now, reservations, session, req, last, cx>>

Init ==
    /\ now = Epoch
    /\ cx = CxIdle
    /\ InitSystem

\* No staff detail request is between its read and its response.
Quiet == \A c \in Clients : req[c].pc = "idle"

ValidPatientForm ==
    Merge([first_choice_date |-> " 2025-06-01 ", first_choice_time_slot |-> "AM",
           status |-> "confirmed", email |-> "b@example.com"], Demographics)

(***************************************************************************)
(* The staff side: patients submit through the links mailed to them, one   *)
(* browser works the staff pages, requests are served one at a time.       *)
(***************************************************************************)
StaffClients == {"c1"}

NextStaff ==
    \/ \E e \in Emails :
         /\ Quiet
         /\ Len(reservations) < MaxReservations
         /\ ReservationForm(FormToken(e, now), "POST", ValidPatientForm)
    \/ \E c \in StaffClients, m \in Methods, e \in LoginEmails, p \in LoginPasswords :
         Quiet /\ Login(c, m, e, p)
    \/ \E c \in StaffClients : Quiet /\ Logout(c)
    \/ \E c \in StaffClients : Quiet /\ ReservationList(c)
    \/ \E c \in StaffClients, i \in 1..(MaxReservations + 1), m \in Methods, f \in StaffForms :
         Quiet /\ DetailBegin(c, i, m, f)
    \/ \E c \in StaffClients : DetailUpdate(c)
    \/ \E c \in StaffClients, sent \in BOOLEAN : DetailNotify(c, sent)
    \/ \E u \in 1..Len(staff_users), a \in BOOLEAN : SetStaffUserActive(u, a)

SpecStaff == Init /\ [][NextStaff]_vars

(***************************************************************************)
(* The patient side: any token may arrive at the two link endpoints, with  *)
(* any form; staff confirm the oldest reservation; one request at a time.  *)
(***************************************************************************)
LinkStaffForms ==
    {[status |-> "confirmed", confirmed_datetime |-> "2025-06-01 10:00",
      handled_by |-> "staff-A"]}

\* A GET carries no form.
FormsOf(method, forms) == IF method = "GET" THEN {<<>>} ELSE forms

NextLinks ==
    \/ \E m \in Methods, e \in Emails \cup {" "}, sent \in BOOLEAN :
         Quiet /\ EmailInput(m, e, sent)
    \/ \E t \in RouteTokens(now), m \in Methods : \E f \in FormsOf(m, PatientForms) :
         Quiet /\ ReservationForm(t, m, f)
    \/ \E t \in RouteTokens(now), m \in Methods : \E f \in FormsOf(m, RescheduleForms) :
         Quiet /\ Reschedule(t, m, f)
    \/ Quiet /\ Login("c1", "POST", "staff@example.com", "secret")
    \/ \E f \in LinkStaffForms : Quiet /\ DetailBegin("c1", 1, "POST", f)
    \/ DetailUpdate("c1")
    \/ \E sent \in BOOLEAN : DetailNotify("c1", sent)

SpecLinks == Init /\ [][NextLinks]_vars

(***************************************************************************)
(* The store on its own: the functions of reservation_model.py called      *)
(* with bounded arguments, as any caller inside the application may.       *)
(***************************************************************************)
StoreData ==
    {[email |-> "a@example.com", last_name |-> "Yamada", first_name |-> "Taro",
      first_choice_date |-> "2025-06-01", first_choice_time_slot |-> "AM"],
     [email |-> "a@example.com", last_name |-> "Yamada", first_name |-> "Taro",
      first_choice_date |-> "2025-06-01", first_choice_time_slot |-> "AM",
      status |-> "confirmed", confirmed_datetime |-> "2025-06-01 10:00", id |-> 7],
     [last_name |-> "Sato", status |-> "pending"]}

\* status and confirmed_datetime arguments of update_reservation_status
StoreStatuses ==
    {<<"confirmed", "2025-06-01 10:00">>, <<"need_reschedule", NULL>>,
     <<"cancelled", NULL>>}

StoreChoices ==
    {[first_choice_date |-> "2025-07-01", first_choice_time_slot |-> "PM",
      second_choice_date |-> "2025-07-02", second_choice_time_slot |-> "AM",
      third_choice_date |-> NULL, third_choice_time_slot |-> NULL]}

\* create_reservation(data)
StoreCreate(data) ==
    /\ Len(reservations) < MaxStoreRows
    /\ reservations' = create_reservation(reservations, data, now)
    /\ last' = [op |-> "create_reservation", data |-> data,
                lastrowid |-> IF Len(reservations') > Len(reservations)
                              THEN Len(reservations') ELSE 0]
    /\ UNCHANGED <<now, staff_users, session, req, cx>>

\* update_reservation_status(reservation_id, status, confirmed_datetime, ...)
StoreUpdateStatus(reservation_id, status, confirmed_datetime) ==
    /\ reservations' = update_reservation_status(reservations, reservation_id,
                          status, confirmed_datetime, NULL, "staff-A", now)
    /\ last' = [op |-> "update_reservation_status",
                reservation_id |-> reservation_id, status |-> status]
    /\ UNCHANGED <<now, staff_users, session, req, cx>>

\* update_reservation_choices(reservation_id, ...)
StoreUpdateChoices(reservation_id, c) ==
    /\ reservations' = update_reservation_choices(reservations, reservation_id, c, now)
    /\ last' = [op |-> "update_reservation_choices",
                reservation_id |-> reservation_id,
                before_status |->
                    IF reservation_id \in 1..Len(reservations)
                    THEN reservations[reservation_id].status ELSE NULL]
    /\ UNCHANGED <<now, staff_users, session, req, cx>>

\* get_pending_reservations()
StoreGetPending ==
    /\ \E pending \in PendingOrders(reservations) :
         last' = [op |-> "get_pending_reservations", rows |-> pending]
    /\ UNCHANGED <<now, reservations, staff_users, session, req, cx>>

\* A second passes.
StoreTick ==
    /\ now < Epoch + MaxStoreSeconds * TicksPerSecond
    /\ now' = now + TicksPerSecond
    /\ UNCHANGED <<reservations, staff_users, session, req, last, cx>>

NextStore ==
    \/ \E d \in StoreData : StoreCreate(d)
    \/ \E i \in 1..(MaxStoreRows + 1), st \in StoreStatuses :
         StoreUpdateStatus(i, st[1], st[2])
    \/ \E i \in 1..(MaxStoreRows + 1), c \in StoreChoices : StoreUpdateChoices(i, c)

SpecStore == Init /\ [][NextStore]_vars

(***************************************************************************)
(* The pending queue: rows are created, cancelled and resubmitted while    *)
(* seconds pass, and the staff dashboard reads the queue.                  *)
(***************************************************************************)
NextQueue ==
    \/ \E d \in StoreData : StoreCreate(d)
    \/ \E i \in 1..MaxStoreRows : StoreUpdateStatus(i, "cancelled", NULL)
    \/ \E i \in 1..MaxStoreRows, c \in StoreChoices : StoreUpdateChoices(i, c)
    \/ StoreGetPending
    \/ StoreTick

SpecQueue == Init /\ [][NextQueue]_vars

(***************************************************************************)
(* Concurrent staff: two browsers work the detail page of the same         *)
(* reservations, and the requests of one run between the read, the write   *)
(* and the mails of the other.  A ledger counts what has happened.         *)
(***************************************************************************)
\* Most confirmation mails, and most changes of a stored status to
\* confirmed, after which no further request is started.
MaxRaceMails == 2

RaceForms ==
    {[status |-> "confirmed", confirmed_datetime |-> "2025-06-01 10:00",
      staff_note |-> "by phone", handled_by |-> "staff-A"],
     [status |-> "need_reschedule", staff_note |-> "no slot", handled_by |-> "staff-B"]}

\* The confirmation mails among the mails of a response.
ConfirmationsIn(mails) ==
    Cardinality({k \in 1..Len(mails) : mails[k].kind = "confirmation"})

\* The rows whose stored status goes from another value to confirmed.
NewlyConfirmed(before, after) ==
    Cardinality({i \in 1..Len(before) :
                   before[i].status # "confirmed" /\ after[i].status = "confirmed"})

InitRace ==
    /\ now = Epoch
    /\ cx = [pc |-> "ledger", confirmations |-> 0, changes |-> 0]
    /\ InitSystem

RaceBegin(c, reservation_id, form) ==
    /\ cx.confirmations < MaxRaceMails
    /\ cx.changes < MaxRaceMails
    /\ DetailBegin(c, reservation_id, "POST", form)

RaceUpdate(c) ==
    /\ DetailWrite(c)
    /\ cx' = [cx EXCEPT !.changes = @ + NewlyConfirmed(reservations, reservations')]

RaceNotify(c, sent) ==
    /\ DetailRespond(c, sent)
    /\ cx' = [cx EXCEPT !.confirmations = @ + ConfirmationsIn(last'.mails)]

NextRace ==
    \/ ReservationForm(FormToken("a@example.com", now), "POST", ValidPatientForm)
    \/ \E c \in Clients : Login(c, "POST", "staff@example.com", "secret")
    \/ \E c \in Clients, i \in 1..MaxReservations, f \in RaceForms : RaceBegin(c, i, f)
    \/ \E c \in Clients : RaceUpdate(c)
    \/ \E c \in Clients, sent \in BOOLEAN : RaceNotify(c, sent)

SpecRace == InitRace /\ [][NextRace]_vars

(***************************************************************************)
(* The expiry windows: the server mails a link, time passes, and the       *)
(* holder of the link visits the two link endpoints with it.               *)
(***************************************************************************)
\* Most ticks the clock is followed past the issuance of a link and past
\* the end of each window.
MaxWindowTicks == 3

\* Ticks after issuance at which the two windows end.
WindowMarks == {FORM_MAX_AGE * TicksPerSecond, RESCHEDULE_MAX_AGE * TicksPerSecond}

InitWindows ==
    /\ now \in Epoch..(Epoch + TicksPerSecond - 1)
    /\ cx = CxIdle
    /\ InitSystem

\* The links are mailed during the first second.
WindowsIssue(payload) ==
    /\ now < Epoch + TicksPerSecond
    /\ cx' = [pc |-> "issued", payload |-> payload, issued_at |-> now,
              token |-> issue_token(payload, DEFAULT_SALT, now)]
    /\ UNCHANGED <<now, reservations, staff_users, session, req, last>>

\* email_input mails a form link for address e (line 47).
WindowsIssueForm(e) == WindowsIssue(Dict([email |-> e]))

\* reservation_detail mails a reschedule link for row i (lines 156-159).
WindowsIssueReschedule(i) ==
    /\ i \in 1..Len(reservations)
    /\ WindowsIssue(Dict([email |-> reservations[i].email, reservation_id |-> i]))

\* Time passes until a window of the link held ends.
WindowsWaitUntil(mark) ==
    /\ cx.pc = "issued"
    /\ now < cx.issued_at + mark
    /\ now' = cx.issued_at + mark
    /\ UNCHANGED <<reservations, staff_users, session, req, last, cx>>

\* One tick passes.
WindowsTick ==
    /\ cx.pc = "issued"
    /\ \E base \in {0} \cup WindowMarks :
         /\ cx.issued_at + base <= now
         /\ now < cx.issued_at + base + MaxWindowTicks
    /\ now' = now + 1
    /\ UNCHANGED <<reservations, staff_users, session, req, last, cx>>

\* The form a patient posts through the reschedule link.
NewChoices ==
    [first_choice_date |-> "2025-07-01", first_choice_time_slot |-> "PM"]

WindowsVisitForm(method, form) ==
    /\ cx.pc = "issued"
    /\ ReservationForm(cx.token, method, form)

WindowsVisitReschedule(method, form) ==
    /\ cx.pc = "issued"
    /\ Reschedule(cx.token, method, form)

NextWindows ==
    \/ \E e \in Emails : WindowsIssueForm(e)
    \/ \E i \in 1..MaxReservations : WindowsIssueReschedule(i)
    \/ \E mark \in WindowMarks : WindowsWaitUntil(mark)
    \/ WindowsTick
    \/ \E m \in Methods : \E f \in FormsOf(m, {ValidPatientForm}) :
         WindowsVisitForm(m, f)
    \/ \E m \in Methods : \E f \in FormsOf(m, {NewChoices}) :
         WindowsVisitReschedule(m, f)

SpecWindows == InitWindows /\ [][NextWindows]_vars

(***************************************************************************)
(* The reschedule round: staff ask for new dates, the link of the mail is  *)
(* the link the patient holds, staff may go on changing the status, an     *)
(* hour or 48 hours pass, and the patient presents the link, any number of *)
(* times.                                                                  *)
(***************************************************************************)
RoundStaffForms ==
    {[status |-> "need_reschedule", staff_note |-> "no slot", handled_by |-> "staff-B"],
     [status |-> "confirmed", confirmed_datetime |-> "2025-06-01 10:00",
      handled_by |-> "staff-A"],
     [status |-> "cancelled"]}

\* Ticks after the mail at which the patient comes back: an hour, 48 hours.
RoundMarks == {60 * 60 * TicksPerSecond, 48 * 60 * 60 * TicksPerSecond}

\* The reschedule mails among the mails of a response.
RescheduleMails(mails) == {k \in 1..Len(mails) : mails[k].kind = "reschedule"}

\* Submissions and staff requests arrive during the first second.
RoundSubmit ==
    /\ Quiet
    /\ now < Epoch + TicksPerSecond
    /\ ReservationForm(FormToken("a@example.com", now), "POST", ValidPatientForm)

RoundBegin(c, reservation_id, form) ==
    /\ Quiet
    /\ now < Epoch + TicksPerSecond
    /\ DetailBegin(c, reservation_id, "POST", form)

\* The response; the link of a reschedule mail (lines 156-165) becomes the
\* link held.
RoundNotify(c, sent) ==
    /\ DetailRespond(c, sent)
    /\ cx' = IF RescheduleMails(last'.mails) = {} THEN cx
             ELSE [pc |-> "issued",
                   payload |-> Dict([email |-> req[c].email,
                                     reservation_id |-> req[c].reservation_id]),
                   issued_at |-> now,
                   token |-> last'.mails[CHOOSE k \in RescheduleMails(last'.mails) : TRUE].token]

NextRound ==
    \/ RoundSubmit
    \/ Quiet /\ Login("c1", "POST", "staff@example.com", "secret")
    \/ \E i \in 1..MaxReservations, f \in RoundStaffForms : RoundBegin("c1", i, f)
    \/ DetailUpdate("c1")
    \/ \E sent \in BOOLEAN : RoundNotify("c1", sent)
    \/ \E mark \in RoundMarks : Quiet /\ WindowsWaitUntil(mark)
    \/ \E m \in Methods : \E f \in FormsOf(m, RescheduleForms) :
         Quiet /\ WindowsVisitReschedule(m, f)

SpecRound == Init /\ [][NextRound]_vars

(***************************************************************************)
(* The codec on its own: issue_token and verify_token applied to bounded   *)
(* inputs, with the token in the hands of a holder who may alter it.       *)
(***************************************************************************)
CodecPayloads ==
    {Dict([email |-> e]) : e \in Emails}
    \cup {Dict([email |-> "a@example.com", reservation_id |-> 1])}
    \cup {Dict([email |-> "a@example.com", reservation_id |-> 1, purpose |-> "reschedule"])}
    \cup {List(<<"a@example.com">>)}

CodecAges == 0..MaxCodecAge
CodecLastTick == MaxCodecSecond * TicksPerSecond + (TicksPerSecond - 1)

InitCodec ==
    /\ now \in 0..(TicksPerSecond - 1)
    /\ cx = CxIdle
    /\ InitSystem

\* issue_token(payload, salt=salt)
CodecIssue(payload, salt) ==
    /\ cx.pc = "idle"
    /\ cx' = [pc |-> "issued", payload |-> payload, salt |-> salt,
              issued_at |-> now, genuine |-> issue_token(payload, salt, now),
              token |-> issue_token(payload, salt, now)]
    /\ UNCHANGED <<now, reservations, staff_users, session, req, last>>

\* What a holder without the secret can make of the signed string: another
\* payload, another timestamp, another signature, or a token signed
\* throughout with a key of the holder's own.
CodecAlterations(t) ==
    {[t EXCEPT !.body = JsonDumps(p)] : p \in CodecPayloads}
    \cup {[t EXCEPT !.ts = s] : s \in 0..MaxCodecSecond}
    \cup {[t EXCEPT !.sig = Sign(FOREIGN_KEY, k, t.body, t.ts)] : k \in Salts}
    \cup {[body |-> JsonDumps(p), ts |-> t.ts,
           sig |-> Sign(FOREIGN_KEY, DEFAULT_SALT, JsonDumps(p), t.ts)] :
             p \in CodecPayloads}

CodecTamper ==
    /\ cx.pc = "issued"
    /\ cx.token = cx.genuine
    /\ \E t \in CodecAlterations(cx.genuine) :
          /\ t # cx.genuine
          /\ cx' = [cx EXCEPT !.token = t]
    /\ UNCHANGED <<now, reservations, staff_users, session, req, last>>

CodecTick ==
    /\ now < CodecLastTick
    /\ now' = now + 1
    /\ UNCHANGED <<reservations, staff_users, session, req, last, cx>>

\* verify_token(token, max_age_seconds=max_age, salt=salt)
CodecVerify(max_age, salt) ==
    /\ cx.pc = "issued"
    /\ cx' = [pc |-> "verified", payload |-> cx.payload, salt |-> cx.salt,
              issued_at |-> cx.issued_at, genuine |-> cx.genuine,
              token |-> cx.token,
              vsalt |-> salt, max_age |-> max_age, verified_at |-> now,
              result |-> verify_token(cx.token, max_age, salt, now)]
    /\ UNCHANGED <<now, reservations, staff_users, session, req, last>>

NextCodec ==
    \/ \E p \in CodecPayloads, s \in Salts : CodecIssue(p, s)
    \/ CodecTamper
    \/ CodecTick
    \/ \E a \in CodecAges, s \in Salts : CodecVerify(a, s)

SpecCodec == InitCodec /\ [][NextCodec]_vars

(***************************************************************************)
(* Claims about the codec, checked under SpecCodec.                        *)
(***************************************************************************)
CxVerified == cx.pc = "verified"
CxGenuine == CxVerified /\ cx.token = cx.genuine
CxElapsed == cx.verified_at - cx.issued_at
CxInvalid == [data |-> None, err |-> "invalid"]
CxExpired == [data |-> None, err |-> "expired"]

\* C1: a mapping payload issued under a purpose and verified under the same
\* purpose while less than max_age seconds have elapsed comes back
\* unchanged, with no error.
C1_RoundTrip ==
    (/\ CxGenuine
     /\ cx.vsalt = cx.salt
     /\ cx.payload.type = "dict"
     /\ CxElapsed < cx.max_age * TicksPerSecond)
    => cx.result = [data |-> cx.payload, err |-> NoError]

C1_Witness ==
    /\ CxGenuine
    /\ cx.vsalt = cx.salt
    /\ cx.payload = Dict([email |-> "a@example.com", reservation_id |-> 1])
    /\ CxElapsed > 0
    /\ CxElapsed < cx.max_age * TicksPerSecond
    /\ get_timestamp(cx.verified_at) - cx.token.ts = cx.max_age
    /\ cx.result.data = cx.payload

\* C2: a token altered or forged by a holder without the secret verifies as
\* invalid under every purpose, every max_age and at every elapsed time,
\* also beyond max_age: never expired, never a payload.
C2_TamperedIsInvalid ==
    (CxVerified /\ cx.token # cx.genuine) => cx.result = CxInvalid

C2_Witness ==
    /\ CxVerified
    /\ cx.token # cx.genuine
    /\ cx.vsalt = cx.salt
    /\ get_timestamp(cx.verified_at) - cx.token.ts > cx.max_age
    /\ cx.result = CxInvalid

\* C3 as stated: a validly signed token verified with max_age = 0, or after
\* more than max_age seconds have elapsed, is reported expired.
C3_ExpiredAsStated ==
    (/\ CxGenuine
     /\ cx.vsalt = cx.salt
     /\ (cx.max_age = 0 \/ CxElapsed > cx.max_age * TicksPerSecond))
    => cx.result = CxExpired

\* C3 as amended: a validly signed token is reported expired, never invalid
\* and never with a payload, whenever the whole-second clock reading at
\* verification exceeds the whole-second timestamp of issuance by more than
\* max_age; whatever the shape of its payload.
C3_ExpiredByTimestamp ==
    (/\ CxGenuine
     /\ cx.vsalt = cx.salt
     /\ get_timestamp(cx.verified_at) - get_timestamp(cx.issued_at) > cx.max_age)
    => cx.result = CxExpired

C3_Witness ==
    /\ CxGenuine
    /\ cx.vsalt = cx.salt
    /\ cx.payload.type = "list"
    /\ get_timestamp(cx.verified_at) - get_timestamp(cx.issued_at) = cx.max_age + 1
    /\ cx.result = CxExpired

\* C4: a token issued under one purpose and verified under another is
\* invalid at every elapsed time.
C4_PurposeScoped ==
    (CxGenuine /\ cx.vsalt # cx.salt) => cx.result = CxInvalid

C4_Witness ==
    /\ CxGenuine
    /\ cx.vsalt # cx.salt
    /\ cx.payload.type = "dict"
    /\ CxElapsed < cx.max_age * TicksPerSecond
    /\ cx.result = CxInvalid

(***************************************************************************)
(* Claims about the link endpoints, checked under SpecLinks.               *)
(***************************************************************************)
\* The last request was a reschedule request whose token verified and whose
\* email is not the email of the row the token names.
ForeignToken(l, db) ==
    /\ l.op = "reschedule"
    /\ l.err = NoError
    /\ Truthy(l.email)
    /\ l.rid \in 1..Len(db)
    /\ db[l.rid].email # l.email

\* C5: a reschedule request, GET or POST, whose validly signed, unexpired
\* token carries an email other than the one stored in the row it names
\* gets the invalid-link response and leaves every row as it was.
C5_OwnershipDenied ==
    [][ForeignToken(last', reservations)
          => (last'.outcome = "token_invalid" /\ reservations' = reservations)]_vars

C5_Witness ==
    /\ ForeignToken(last, reservations)
    /\ last.method = "POST"
    /\ last.outcome = "token_invalid"
    /\ reservations[last.rid].status = "confirmed"

(***************************************************************************)
(* Claims about the staff pages, checked under SpecStaff.                  *)
(***************************************************************************)
\* The browser's session names a staff user who exists and is active.
HasActiveSession(c) ==
    /\ session[c] \in 1..Len(staff_users)
    /\ staff_users[session[c]].is_active = 1

\* This step is the arrival of a request at the staff listing or at a staff
\* detail page: the response it leaves is one of theirs, and the step is
\* neither the write nor the mails of a request already let in, nor a change
\* of the staff table.
StaffRequest ==
    /\ last'.op \in {"reservation_list", "reservation_detail"}
    /\ last'.outcome # "updated"
    /\ staff_users' = staff_users
    /\ \A c \in Clients : ~(req[c].pc = "update" /\ req'[c].pc = "notify")

StaffStatuses == {"confirmed", "need_reschedule", "cancelled"}

\* C6: a request to the listing or to a detail page from a browser without
\* an active staff session is sent to the login page: it reads no
\* reservation, starts no update and sends no mail; and a row's status
\* becomes confirmed, need_reschedule or cancelled only by the write of a
\* detail POST that was let in with a session.
C6_Gate ==
    [][/\ (StaffRequest /\ ~HasActiveSession(last'.client))
               => /\ last'.outcome = "login_redirect"
                  /\ ~last'.reads
                  /\ last'.mails = <<>>
                  /\ UNCHANGED <<reservations, req>>
       /\ \A i \in 1..Len(reservations) :
            (/\ Len(reservations') = Len(reservations)
             /\ reservations'[i].status # reservations[i].status
             /\ reservations'[i].status \in StaffStatuses)
               => \E c \in Clients :
                    /\ req[c].pc = "update"
                    /\ req[c].reservation_id = i
                    /\ req[c].user # 0
                    /\ req[c].status = reservations'[i].status]_vars

C6_Witness ==
    /\ last.op = "reservation_detail"
    /\ last.method = "POST"
    /\ last.outcome = "login_redirect"
    /\ session[last.client] # 0
    /\ ~HasActiveSession(last.client)
    /\ last.reservation_id \in 1..Len(reservations)
    /\ reservations[last.reservation_id].status = "cancelled"

\* The response to a staff detail POST that went through its update.
Updated == last.op = "reservation_detail" /\ last.outcome = "updated"

MailsOfKind(kind) == SelectSeq(last.mails, LAMBDA m : m.kind = kind)

\* C7: a staff status update attempts exactly one confirmation mail, to the
\* reservation's email, when the submitted status is confirmed, the status
\* read at the start of the request was not confirmed and the submitted
\* confirmed_datetime is not empty; in every other case none.
C7_ConfirmationMail ==
    /\ Updated =>
         IF /\ last.status = "confirmed"
            /\ last.before_status # "confirmed"
            /\ last.confirmed_datetime # ""
         THEN /\ Len(MailsOfKind("confirmation")) = 1
              /\ MailsOfKind("confirmation")[1].to =
                    reservations[last.reservation_id].email
         ELSE Len(MailsOfKind("confirmation")) = 0
    /\ (last.op = "reservation_detail" /\ ~Updated) => last.mails = <<>>

C7_Witness ==
    /\ Updated
    /\ last.status = "confirmed"
    /\ last.before_status = "need_reschedule"
    /\ last.confirmed_datetime # ""
    /\ Len(MailsOfKind("confirmation")) = 1
    /\ reservations[last.reservation_id].email = "b@example.com"

\* C8: a staff status update with status need_reschedule, whatever the
\* status before, issues one token that verifies now to the payload
\* {email: the row's email, reservation_id: the row's id} and attempts
\* exactly one reschedule mail, carrying that token, to that email; an
\* update with any other status produces neither.
C8_RescheduleMail ==
    Updated =>
      IF last.status = "need_reschedule"
      THEN /\ Len(MailsOfKind("reschedule")) = 1
           /\ MailsOfKind("reschedule")[1].to =
                 reservations[last.reservation_id].email
           /\ MailsOfKind("reschedule")[1].token.ts = get_timestamp(now)
           /\ verify_token(MailsOfKind("reschedule")[1].token,
                           RESCHEDULE_MAX_AGE, DEFAULT_SALT, now)
                = [data |-> Dict([email |-> reservations[last.reservation_id].email,
                                  reservation_id |-> last.reservation_id]),
                   err |-> NoError]
      ELSE Len(MailsOfKind("reschedule")) = 0

C8_Witness ==
    /\ Updated
    /\ last.status = "need_reschedule"
    /\ last.before_status = "need_reschedule"
    /\ Len(MailsOfKind("reschedule")) = 1
    /\ reservations[last.reservation_id].email = "b@example.com"

\* The row holds what the detail POST r wrote.
HoldsWrite(row, r) ==
    /\ row.status = r.status
    /\ row.confirmed_datetime = OrNone(r.confirmed_datetime)
    /\ row.staff_note = OrNone(r.staff_note)
    /\ row.handled_by = OrNone(r.handled_by)

\* C9: when a staff status update comes to send its mail the row already
\* holds the status, confirmed_datetime, staff_note and handled_by of the
\* request; the send, failing or not, changes no row, and there is one
\* attempt at most.
C9_WriteBeforeMail ==
    [][\A c \in Clients :
         (req[c].pc = "notify" /\ req'[c].pc = "idle")
            => /\ HoldsWrite(reservations[req[c].reservation_id], req[c])
               /\ reservations' = reservations
               /\ Len(last'.mails) <= 1]_vars

C9_Witness ==
    /\ Updated
    /\ Len(last.mails) = 1
    /\ ~last.mails[1].ok
    /\ last.handled_by # ""
    /\ HoldsWrite(reservations[last.reservation_id], last)

(***************************************************************************)
(* Claims about the store, checked under SpecStore.                        *)
(***************************************************************************)
\* C10: the row create_reservation stores has status pending, whatever the
\* mapping it is given, a status of its own included.
C10_CreateIsPending ==
    (last.op = "create_reservation" /\ last.lastrowid > 0)
       => reservations[last.lastrowid].status = "pending"

C10_Witness ==
    /\ last.op = "create_reservation"
    /\ last.lastrowid > 0
    /\ "status" \in DOMAIN last.data
    /\ last.data.status = "confirmed"
    /\ reservations[last.lastrowid].status = "pending"

\* The ids a sequence of row ids lists.
Ids(q) == {q[k] : k \in 1..Len(q)}

\* The last call was update_reservation_choices on a row that exists.
Resubmitted ==
    /\ last.op = "update_reservation_choices"
    /\ last.reservation_id \in 1..Len(reservations)

\* C11: update_reservation_choices on an existing reservation leaves its
\* status pending whatever the status before (pending, confirmed,
\* need_reschedule, cancelled), and get_pending_reservations then lists it.
C11_ResubmitIsPending ==
    Resubmitted =>
      /\ reservations[last.reservation_id].status = "pending"
      /\ \A q \in PendingOrders(reservations) : last.reservation_id \in Ids(q)

C11_Witness ==
    /\ Resubmitted
    /\ last.before_status = "cancelled"
    /\ reservations[last.reservation_id].status = "pending"
    /\ \E i \in 1..Len(reservations) : reservations[i].status = "need_reschedule"

(***************************************************************************)
(* Claims about the stored rows: C12 under SpecStaff, C13 under SpecLinks. *)
(***************************************************************************)
Vocabulary == {"pending", "confirmed", "need_reschedule", "cancelled"}

\* C12: after any sequence of patient submissions, patient reschedule
\* submissions and authenticated staff status updates, whatever status
\* string the staff form posts, the status of every stored reservation is
\* one of pending, confirmed, need_reschedule, cancelled.
C12_StatusVocabulary ==
    \A i \in 1..Len(reservations) : reservations[i].status \in Vocabulary

\* C13: a stored reservation has a non-empty confirmed_datetime only if its
\* status is confirmed, after any sequence of staff status updates and
\* patient reschedule submissions.
C13_DatetimeOnlyWhenConfirmed ==
    \A i \in 1..Len(reservations) :
      Truthy(reservations[i].confirmed_datetime)
         => reservations[i].status = "confirmed"

(***************************************************************************)
(* More claims about the store, checked under SpecStore.                   *)
(***************************************************************************)
ChoiceFields ==
    {"first_choice_date", "first_choice_time_slot",
     "second_choice_date", "second_choice_time_slot",
     "third_choice_date", "third_choice_time_slot"}

\* C14: the write of a reschedule submission changes only the six choice
\* fields, status and updated_at of its target: the target's email,
\* demographic fields, confirmed_datetime, staff_note and handled_by, and
\* every field of every other row, stay as they were; and no operation of
\* the store changes the email of a row that exists.
C14_RescheduleFrame ==
    [][/\ last'.op = "update_reservation_choices"
            => /\ Len(reservations') = Len(reservations)
               /\ \A i \in 1..Len(reservations) :
                    IF i = last'.reservation_id
                    THEN \A k \in DOMAIN reservations[i] :
                           k \notin ChoiceFields \cup {"status", "updated_at"}
                              => reservations'[i][k] = reservations[i][k]
                    ELSE reservations'[i] = reservations[i]
       /\ \A i \in 1..Len(reservations) :
            /\ i <= Len(reservations')
            /\ reservations'[i].email = reservations[i].email]_vars

C14_Witness ==
    /\ Resubmitted
    /\ Len(reservations) = 2
    /\ last.before_status = "confirmed"
    /\ reservations[last.reservation_id].first_choice_date = "2025-07-01"
    /\ reservations[last.reservation_id].confirmed_datetime = "2025-06-01 10:00"
    /\ reservations[last.reservation_id].handled_by = "staff-A"
    /\ reservations[last.reservation_id].last_name = "Yamada"
    /\ \E i \in 1..2 :
         /\ i # last.reservation_id
         /\ reservations[i].status = "cancelled"
         /\ reservations[i].first_choice_date = "2025-06-01"

(***************************************************************************)
(* More claims about the link endpoints, checked under SpecLinks.          *)
(***************************************************************************)
\* The form leaves field k out, or fills it with blanks only.
Blank(f, k) == strip(FormGet(f, k)) = ""

\* The form sets one of the date and the slot of the n-th choice only.
HalfPair(f, n) == Blank(f, n \o "_choice_date") # Blank(f, n \o "_choice_time_slot")

MissingFirstChoice(f) ==
    Blank(f, "first_choice_date") \/ Blank(f, "first_choice_time_slot")

MissingRequired(f) ==
    \/ \E k \in {"last_name", "first_name", "birth_date", "sex"} : Blank(f, k)
    \/ MissingFirstChoice(f)

InconsistentPair(f) == HalfPair(f, "second") \/ HalfPair(f, "third")

\* C15: a form POST through a good link with a required field missing or
\* with one half of a second or third choice creates no reservation, and a
\* reschedule POST with the first choice missing or with half a pair leaves
\* every row, the target's choices and status included, as it was; both get
\* the form back with the errors.
C15_InvalidFormsPersistNothing ==
    [][/\ (/\ last'.op = "reservation_form"
           /\ last'.form # <<>>
           /\ (MissingRequired(last'.form) \/ InconsistentPair(last'.form)))
            => (reservations' = reservations /\ last'.outcome = "form_errors")
       /\ (/\ last'.op = "reschedule"
           /\ last'.form # <<>>
           /\ (MissingFirstChoice(last'.form) \/ InconsistentPair(last'.form)))
            => (reservations' = reservations /\ last'.outcome = "form_errors")]_vars

C15_Witness ==
    /\ last.op = "reschedule"
    /\ last.outcome = "form_errors"
    /\ ~MissingFirstChoice(last.form)
    /\ HalfPair(last.form, "third")
    /\ reservations[last.rid].status = "confirmed"
    /\ reservations[last.rid].first_choice_date = "2025-06-01"
    /\ reservations[last.rid].third_choice_date = ""

(***************************************************************************)
(* Claims about the expiry windows, checked under SpecWindows.             *)
(***************************************************************************)
OneHour == 60 * 60
TwoDays == 48 * 60 * 60

\* This step is a visit with the link held.
Visit == cx.pc = "issued" /\ cx' = cx /\ now' = now

FormLink == DOMAIN cx.payload.val = {"email"}
RescheduleLinkHeld == DOMAIN cx.payload.val = {"email", "reservation_id"}

\* Ticks since the link was issued, and whole seconds between the clock
\* reading stamped into it and the clock reading now.
WindowElapsed == now - cx.issued_at
WindowAge == get_timestamp(now) - get_timestamp(cx.issued_at)

Accepted(l) == l.err = NoError
ExpiredAndUntouched ==
    last'.outcome = "token_expired" /\ reservations' = reservations

\* C16 as stated: the form endpoint accepts an {email} link only while at
\* most 1 hour has elapsed since issuance, the reschedule endpoint an
\* {email, reservation_id} link only while at most 48 hours have elapsed;
\* past its window the link gets the expired response and nothing changes.
C16_WindowsAsStated ==
    [][/\ (Visit /\ last'.op = "reservation_form" /\ FormLink)
            => /\ Accepted(last') => WindowElapsed <= OneHour * TicksPerSecond
               /\ WindowElapsed > OneHour * TicksPerSecond => ExpiredAndUntouched
       /\ (Visit /\ last'.op = "reschedule" /\ RescheduleLinkHeld)
            => /\ Accepted(last') => WindowElapsed <= TwoDays * TicksPerSecond
               /\ WindowElapsed > TwoDays * TicksPerSecond => ExpiredAndUntouched]_vars

\* C16 as amended: the form endpoint accepts an {email} link exactly while
\* the clock, read in whole seconds, is at most 3600 past the whole-second
\* timestamp of the link, the reschedule endpoint an {email,
\* reservation_id} link exactly while it is at most 172800 past; beyond
\* that the link gets the expired response and nothing changes.
C16_WindowsByTimestamp ==
    [][/\ (Visit /\ last'.op = "reservation_form" /\ FormLink)
            => /\ Accepted(last') <=> WindowAge <= OneHour
               /\ WindowAge > OneHour => ExpiredAndUntouched
       /\ (Visit /\ last'.op = "reschedule" /\ RescheduleLinkHeld)
            => /\ Accepted(last') <=> WindowAge <= TwoDays
               /\ WindowAge > TwoDays => ExpiredAndUntouched]_vars

C16_Witness ==
    /\ cx.pc = "issued"
    /\ RescheduleLinkHeld
    /\ last.op = "reschedule"
    /\ last.method = "POST"
    /\ last.outcome = "token_expired"
    /\ WindowAge = TwoDays + 1
    /\ reservations[cx.payload.val.reservation_id].first_choice_date = "2025-06-01"

\* C21: a form-access link, payload {email} without reservation_id,
\* presented to the reschedule endpoint by GET or POST while validly signed
\* and unexpired, gets the invalid-link response, and no stored reservation
\* changes, also when a reservation with the email of the link exists.
C21_FormLinkCannotReschedule ==
    [][(Visit /\ last'.op = "reschedule" /\ FormLink /\ WindowAge <= TwoDays)
          => (last'.outcome = "token_invalid" /\ reservations' = reservations)]_vars

C21_Witness ==
    /\ cx.pc = "issued"
    /\ FormLink
    /\ last.op = "reschedule"
    /\ last.method = "POST"
    /\ last.outcome = "token_invalid"
    /\ WindowAge <= OneHour
    /\ Len(reservations) = 1
    /\ reservations[1].email = cx.payload.val.email
    /\ reservations[1].first_choice_date = "2025-06-01"

\* C23: a reschedule link, payload {email, reservation_id} as the staff
\* need_reschedule action issues it, presented to the form endpoint by GET
\* or POST is never accepted: it gets an invalid-link or expired-link
\* response and no reservation is created.
C23_RescheduleLinkCannotOpenForm ==
    [][(Visit /\ last'.op = "reservation_form" /\ RescheduleLinkHeld)
          => /\ last'.outcome \in {"token_invalid", "token_expired"}
             /\ reservations' = reservations]_vars

\* C26: the reservation a submission creates stores the email of the
\* payload of the link that was issued and used for the submission, also
\* when the posted form carries an email field of its own; and no step
\* changes the email of a stored reservation.  So every stored email is one
\* a link was issued for.
C26_EmailFromToken ==
    [][/\ (Visit /\ last'.op = "reservation_form"
              /\ Len(reservations') > Len(reservations))
            => reservations'[Len(reservations')].email = cx.payload.val.email
       /\ \A i \in 1..Len(reservations) :
            reservations'[i].email = reservations[i].email]_vars

C26_Witness ==
    /\ cx.pc = "issued"
    /\ FormLink
    /\ last.op = "reservation_form"
    /\ last.outcome = "done"
    /\ last.form.email = "b@example.com"
    /\ cx.payload.val.email = "a@example.com"
    /\ reservations[Len(reservations)].email = "a@example.com"

(***************************************************************************)
(* Claims about the staff login, checked under SpecStaff.                  *)
(***************************************************************************)
\* The rows of the staff table an address typed into the login form names.
AccountRows(email) ==
    {i \in 1..Len(staff_users) : staff_users[i].email = lower(strip(email))}

UnknownEmail(email) == AccountRows(email) = {}

WrongPassword(email, password) ==
    \E i \in AccountRows(email) :
      staff_users[i].password_hash # generate_password_hash(password)

Inactive(email) == \E i \in AccountRows(email) : staff_users[i].is_active = 0

\* C17: a login for an inactive account with its correct password, for an
\* account with a wrong password and for an unknown email fare alike:
\* verify_staff_password returns None, the browser's session stays as it
\* was and the response is the login form with the one error message; so a
\* deactivated account cannot log in until it is reactivated.
C17_LoginRejectedAlike ==
    /\ [](\A e \in LoginEmails, p \in LoginPasswords :
            (UnknownEmail(e) \/ WrongPassword(e, p) \/ Inactive(e))
               => verify_staff_password(staff_users, strip(e), p) = None)
    /\ [][(/\ last'.op = "login"
           /\ last'.method = "POST"
           /\ staff_users' = staff_users
           /\ ~HasActiveSession(last'.client)
           /\ \/ UnknownEmail(last'.email)
              \/ WrongPassword(last'.email, last'.password)
              \/ Inactive(last'.email))
            => (last'.outcome = "login_error" /\ session' = session)]_vars

C17_Witness ==
    /\ last.op = "login"
    /\ last.method = "POST"
    /\ last.email = "Staff@Example.com"
    /\ last.password = "secret"
    /\ Inactive(last.email)
    /\ ~WrongPassword(last.email, last.password)
    /\ last.outcome = "login_error"
    /\ session[last.client] = 0

(***************************************************************************)
(* Claims about the stored choices, checked under SpecLinks.               *)
(***************************************************************************)
\* Date and slot of the n-th choice of a row are both set or both empty.
PairAtomic(row, n) ==
    Truthy(row[n \o "_choice_date"]) <=> Truthy(row[n \o "_choice_time_slot"])

\* C18: in every reachable state every stored reservation has its second
\* choice date and slot both set or both empty, and likewise its third,
\* after any sequence of patient submissions and reschedule submissions.
C18_PairsAtomic ==
    \A i \in 1..Len(reservations) :
      PairAtomic(reservations[i], "second") /\ PairAtomic(reservations[i], "third")

C18_Witness ==
    /\ last.op = "reschedule"
    /\ last.outcome = "done"
    /\ reservations[last.rid].second_choice_date = "2025-07-02"
    /\ reservations[last.rid].second_choice_time_slot = "AM"
    /\ reservations[last.rid].third_choice_date = "2025-07-03"
    /\ reservations[last.rid].third_choice_time_slot = "PM"

(***************************************************************************)
(* Claims about the pending queue, checked under SpecQueue.                *)
(***************************************************************************)
\* C19: get_pending_reservations returns the reservations whose status is
\* pending, each once and no others, in ascending order of created_at; a
\* reservation back in pending after a reschedule stands where its
\* created_at puts it, not behind rows created after it.
C19_PendingOldestFirst ==
    last.op = "get_pending_reservations" =>
      /\ Ids(last.rows) = {i \in 1..Len(reservations) : reservations[i].status = "pending"}
      /\ \A j, k \in 1..Len(last.rows) :
           j < k => /\ last.rows[j] # last.rows[k]
                    /\ reservations[last.rows[j]].created_at
                         <= reservations[last.rows[k]].created_at

C19_Witness ==
    /\ last.op = "get_pending_reservations"
    /\ last.rows = <<1, 2>>
    /\ reservations[1].created_at < reservations[2].created_at
    /\ reservations[1].first_choice_date = "2025-07-01"
    /\ reservations[1].updated_at >= reservations[2].updated_at
    /\ reservations[2].first_choice_date = "2025-06-01"

(***************************************************************************)
(* Claims about rejected links, checked under SpecLinks.                   *)
(***************************************************************************)
\* The response records no email: the payload held none, or the token
\* never came to be decoded; or the email it held is the empty string.
NoEmail(l) == l.email = NULL \/ l.email = ""

\* C20: a GET or POST to the form endpoint or to the reschedule endpoint
\* whose token verifies as invalid (a payload that is not a mapping
\* included) or as expired, or holds no non-empty email, ends in the
\* link-invalid page (token_invalid.html, reason invalid or expired),
\* creates no reservation and changes no stored field.
C20_TokenFailuresPreserveState ==
    [][(/\ last'.op \in {"reservation_form", "reschedule"}
        /\ (last'.err \in {"invalid", "expired"} \/ NoEmail(last')))
         => /\ last'.outcome \in {"token_invalid", "token_expired"}
            /\ reservations' = reservations]_vars

C20_Witness ==
    /\ last.op = "reservation_form"
    /\ last.method = "POST"
    /\ last.err = NoError
    /\ last.email = ""
    /\ last.outcome = "token_invalid"
    /\ Len(reservations) = 1
    /\ reservations[1].status = "confirmed"

(***************************************************************************)
(* Claims about unknown reservation ids, checked under SpecStaff.          *)
(***************************************************************************)
\* C22: a staff detail request, GET or POST, from a logged-in browser for a
\* reservation id no stored row has is answered with the redirect to the
\* listing and its warning; it starts no update, writes nothing to any
\* reservation and sends no mail.
C22_UnknownIdRedirects ==
    [][(/\ last'.op = "reservation_detail"
        /\ last'.authenticated
        /\ last'.reservation_id \notin 1..Len(reservations))
         => /\ last'.outcome = "not_found"
            /\ last'.mails = <<>>
            /\ reservations' = reservations
            /\ req' = req]_vars

C22_Witness ==
    /\ last.op = "reservation_detail"
    /\ last.method = "POST"
    /\ last.authenticated
    /\ last.outcome = "not_found"
    /\ Len(reservations) = 1
    /\ last.reservation_id = 2
    /\ reservations[1].status = "pending"

(***************************************************************************)
(* Claims about concurrent staff updates, checked under SpecRace.          *)
(***************************************************************************)
\* The values a staff request in flight writes to status,
\* confirmed_datetime, staff_note and handled_by.
Written(r) ==
    <<r.status, OrNone(r.confirmed_datetime), OrNone(r.staff_note), OrNone(r.handled_by)>>

\* The values a row holds in those four fields.
Held(row) == <<row.status, row.confirmed_datetime, row.staff_note, row.handled_by>>

\* The request of browser c commits its write in this step.
Commits(c) == req[c].pc = "update" /\ req'[c].pc = "notify"

\* C24: however the status-update requests of two staff browsers on one
\* reservation interleave, each write of update_reservation_status commits
\* whatever the row held and whatever the request had read, and puts the
\* four fields status, confirmed_datetime, staff_note and handled_by of
\* its request into the row together; between writes the four fields stay,
\* so the row always holds the values of the request that wrote last.
C24_LastWriteWins ==
    [][\A i \in 1..Len(reservations) :
         /\ \A c \in Clients :
               (Commits(c) /\ req[c].reservation_id = i)
                  => Held(reservations'[i]) = Written(req[c])
         /\ (\A c \in Clients : ~(Commits(c) /\ req[c].reservation_id = i))
               => Held(reservations'[i]) = Held(reservations[i])]_vars

C24_Witness ==
    /\ req["c1"].pc = "notify"
    /\ req["c2"].pc = "notify"
    /\ req["c1"].reservation_id = req["c2"].reservation_id
    /\ req["c1"].before_status = "pending"
    /\ req["c2"].before_status = "pending"
    /\ req["c1"].status = "confirmed"
    /\ req["c2"].status = "need_reschedule"
    /\ Held(reservations[req["c2"].reservation_id]) = Written(req["c2"])
    /\ cx.changes = 1

\* C25: however the status-update requests of staff browsers on one
\* reservation interleave, the confirmation mails attempted so far are never
\* more than the changes of the stored status from another value to
\* confirmed so far.
C25_NoDuplicateConfirmation == cx.confirmations <= cx.changes

(***************************************************************************)
(* Claims about the reschedule round, checked under SpecRound.             *)
(***************************************************************************)
\* The reservation the link held names.
LinkRow == cx.payload.val.reservation_id

\* This step presents the link held to the reschedule endpoint no later
\* than 48 hours after the link was issued.
PresentsInTime ==
    /\ Visit
    /\ last'.op = "reschedule"
    /\ WindowElapsed <= TwoDays * TicksPerSecond

\* The choices posted are a first choice and whole pairs only.
ValidChoices(f) == ~MissingFirstChoice(f) /\ ~InconsistentPair(f)

\* C27: the link of a reschedule mail, presented no later than 48 hours
\* after it was issued, is accepted on every presentation, whatever the
\* status the reservation has by then and whatever was done with the link
\* before: a GET shows the form, a POST is answered by its form alone, and
\* every POST that is accepted with valid choices leaves the status pending.
C27_LinkReusable ==
    [][PresentsInTime =>
         /\ last'.err = NoError
         /\ last'.method = "GET" => last'.outcome = "form"
         /\ last'.method = "POST" =>
               /\ last'.outcome \in {"form_errors", "done"}
               /\ last'.outcome = "done" <=> ValidChoices(last'.form)
               /\ last'.outcome = "done" => reservations'[LinkRow].status = "pending"]_vars

C27_Witness ==
    /\ cx.pc = "issued"
    /\ last.op = "reschedule"
    /\ last.method = "POST"
    /\ last.outcome = "done"
    /\ WindowElapsed = TwoDays * TicksPerSecond
    /\ reservations[LinkRow].status = "pending"
    /\ reservations[LinkRow].confirmed_datetime = "2025-06-01 10:00"
    /\ reservations[LinkRow].handled_by = "staff-A"

\* What the store holds for a posted choice field: the stripped text, or
\* NULL where the second or third choice is left empty.
StoredChoice(f, k) ==
    IF k \in {"first_choice_date", "first_choice_time_slot"}
    THEN strip(FormGet(f, k))
    ELSE OrNone(strip(FormGet(f, k)))

\* C28: after a staff request has set reservation R to need_reschedule,
\* the link mailed in that request, POSTed to the reschedule endpoint no
\* later than 48 hours after issue with a valid choice triple, passes
\* verification and the ownership test for R; the submission leaves R with
\* the posted choices and status pending, in every result of
\* get_pending_reservations, and leaves every other reservation as it was.
C28_RescheduleRound ==
    [][(PresentsInTime /\ last'.method = "POST" /\ ValidChoices(last'.form))
         => /\ last'.outcome = "done"
            /\ last'.rid = LinkRow
            /\ \A k \in ChoiceFields :
                  reservations'[LinkRow][k] = StoredChoice(last'.form, k)
            /\ reservations'[LinkRow].status = "pending"
            /\ \A q \in PendingOrders(reservations') : LinkRow \in Ids(q)
            /\ \A i \in 1..Len(reservations) :
                  i # LinkRow => reservations'[i] = reservations[i]]_vars

C28_Witness ==
    /\ cx.pc = "issued"
    /\ last.op = "reschedule"
    /\ last.method = "POST"
    /\ last.outcome = "done"
    /\ WindowElapsed > 0
    /\ WindowElapsed <= TwoDays * TicksPerSecond
    /\ reservations[LinkRow].status = "pending"
    /\ reservations[LinkRow].staff_note = "no slot"
    /\ reservations[LinkRow].handled_by = "staff-B"
    /\ reservations[LinkRow].first_choice_date = "2025-07-01"
    /\ reservations[LinkRow].second_choice_date = "2025-07-02"
    /\ reservations[LinkRow].third_choice_time_slot = "PM"

=============================================================================
